---------------------------- MODULE Spec2Model ----------------------------
(***************************************************************************)
(* A model of standoff.py: the StandoffDoc object (flat text + standoff    *)
(* annotations), its decomposition of an element tree (xml_to_standoff),   *)
(* its reconstruction of markup (to_xml) and its annotation store          *)
(* (add_annotation, is_duplicate_annotation).                              *)
(*                                                                         *)
(* Representation:                                                         *)
(*  - a string is a sequence of one-character strings;                     *)
(*  - an lxml name "{uri}local" is the pair <<uri, local>>, a name with no *)
(*    "}" is <<"", local>>; a qualified name "prefix:local" is the pair    *)
(*    <<prefix, local>>, a bare "local" is <<"", local>>;                  *)
(*  - a dict is a sequence of <<key, value>> pairs in insertion order;     *)
(*  - an element is a record [tag, attrib, text, tail, children]; a text   *)
(*    or tail of None is the empty sequence (xml_safe maps both to '');    *)
(*  - the markup string to_xml assembles is a sequence of tokens: one per  *)
(*    character of the flat text and one per tag that render_tags emits.   *)
(***************************************************************************)
EXTENDS Integers, Sequences, FiniteSets, TLC

VARIABLES root_element, nsmap, reverse_nsmap, standoffs, plain_text, call, ret

vars == <<root_element, nsmap, reverse_nsmap, standoffs, plain_text, call, ret>>

(***************************************************************************)
(* Bounds of the model.                                                    *)
(***************************************************************************)
\* largest number of elements of an input document
MaxElems == 4
\* largest number of annotations the list of a document grows to
MaxAnnotations == 4
\* add_annotation calls that store an annotation, per document (Spec)
MaxAdded == 1
\* largest offset given to add_annotation and is_duplicate_annotation
MaxOffset == 2
\* largest depth given to add_annotation
MaxDepthArg == 2
\* the same four bounds for the specification of the annotation store
MaxStoreElems == 2
MaxStoreAdded == 2
MaxStoreOffset == 1
MaxStoreDepthArg == 1

(***************************************************************************)
(* Generic helpers.                                                        *)
(***************************************************************************)
Range(s) == {s[i] : i \in 1..Len(s)}

RECURSIVE Concat(_)
Concat(ss) == IF ss = <<>> THEN <<>> ELSE Head(ss) \o Concat(Tail(ss))

\* Python's len([_ for _ in seq if P(_)])
CountIf(seq, P(_)) == Cardinality({i \in 1..Len(seq) : P(seq[i])})

\* d[key] / key in d, for a dict kept as a sequence of pairs (the last
\* assignment to a key wins)
HasKey(d, key) == \E i \in 1..Len(d) : d[i][1] = key
Lookup(d, key) ==
  LET last == CHOOSE i \in 1..Len(d) :
                 d[i][1] = key /\ \A j \in (i+1)..Len(d) : d[j][1] # key
  IN  d[last][2]

(***************************************************************************)
(* xml_safe                                                                *)
(***************************************************************************)
RECURSIVE str_replace(_, _, _)
str_replace(text, find, replace) ==
  IF text = <<>> THEN <<>>
  ELSE (IF Head(text) = find THEN replace ELSE <<Head(text)>>)
         \o str_replace(Tail(text), find, replace)

replacements ==
  << <<"&",  <<"&", "a", "m", "p", ";">> >>,
     <<"\"", <<"&", "q", "u", "o", "t", ";">> >>,
     <<"'",  <<"&", "a", "p", "o", "s", ";">> >>,
     <<"<",  <<"&", "l", "t", ";">> >>,
     <<">",  <<"&", "g", "t", ";">> >> >>

RECURSIVE apply_replacements(_, _)
apply_replacements(text, i) ==
  IF i > Len(replacements) THEN text
  ELSE apply_replacements(
         str_replace(text, replacements[i][1], replacements[i][2]), i + 1)

xml_safe(text) == apply_replacements(text, 1)

(***************************************************************************)
(* Namespaces: nsmap, reverse_nsmap, proc_ns                               *)
(***************************************************************************)
XML_NS == "http://www.w3.org/XML/1998/namespace"
\* the key None of nsmap (the default namespace)
None == "None"

\* {value: key for key, value in nsmap.items()}
make_reverse_nsmap(map) ==
  LET uris == {map[i][2] : i \in 1..Len(map)}
      lastOf(u) == CHOOSE i \in 1..Len(map) :
                      map[i][2] = u /\ \A j \in (i+1)..Len(map) : map[j][2] # u
  IN  [u \in uris |-> map[lastOf(u)][1]]

\* proc_ns raises KeyError exactly when this is FALSE
proc_ns_ok(rmap, tag) ==
  tag[1] = "" \/ tag[1] = XML_NS \/ tag[1] \in DOMAIN rmap

proc_ns(rmap, tag) ==
  IF tag[1] = "" THEN tag
  ELSE IF tag[1] = XML_NS THEN <<"xml", tag[2]>>
  ELSE IF rmap[tag[1]] = None THEN <<"", tag[2]>>
  ELSE <<rmap[tag[1]], tag[2]>>

(***************************************************************************)
(* xml_to_standoff                                                         *)
(***************************************************************************)
RECURSIVE parse_element(_, _, _, _)
RECURSIVE parse_children(_, _, _, _, _)

\* the value of props when parse_element appends it
make_props(begin, tag, attrib, depth, begin_sort, end, end_sort) ==
  [begin |-> begin, tag |-> tag, attrib |-> attrib, depth |-> depth,
   begin_sort |-> begin_sort, end |-> end, end_sort |-> end_sort]

\* st is [plain_text, standoffs]: the list plain_text and self.standoffs
parse_element(rmap, element, st, depth) ==
  LET begin      == Len(st.plain_text)
      begin_sort == CountIf(st.standoffs, LAMBDA s : s.begin = begin)
      st1        == [st EXCEPT !.plain_text = @ \o xml_safe(element.text)]
      st2        == parse_children(rmap, element.children, 1, st1, depth + 1)
      end        == Len(st2.plain_text)
      end_sort   == CountIf(st2.standoffs, LAMBDA s : s.end = end)
      props      == make_props(begin, proc_ns(rmap, element.tag), element.attrib,
                               depth, begin_sort, end, end_sort)
  IN  [plain_text |-> st2.plain_text \o xml_safe(element.tail),
       standoffs  |-> Append(st2.standoffs, props)]

\* for subelement in element: parse_element(subelement, plain_text, depth + 1)
parse_children(rmap, children, i, st, depth) ==
  IF i > Len(children) THEN st
  ELSE parse_children(rmap, children, i + 1,
                      parse_element(rmap, children[i], st, depth), depth)

xml_to_standoff(rmap, root) ==
  parse_element(rmap, root, [plain_text |-> <<>>, standoffs |-> <<>>], 0)

\* every tag of the tree resolves (no KeyError in proc_ns during construction)
RECURSIVE tags_resolve(_, _)
tags_resolve(rmap, element) ==
  /\ proc_ns_ok(rmap, element.tag)
  /\ \A i \in 1..Len(element.children) : tags_resolve(rmap, element.children[i])

(***************************************************************************)
(* The input documents: every element tree of at most max elements, each   *)
(* text and tail empty or one character; tag, attributes and the namespace *)
(* map follow one of three variants.                                       *)
(***************************************************************************)
Names == <<"a", "b", "c", "d", "e", "f">>
Variants == 1..3

\* 1: no namespaces; 2: a default namespace; 3: a default and a prefixed one
VariantNsmap(v) ==
  CASE v = 1 -> <<>>
    [] v = 2 -> << <<None, "urn:u">> >>
    [] v = 3 -> << <<None, "urn:u">>, <<"p", "urn:w">> >>

TagAt(v, d) ==
  CASE v = 1 -> <<"", Names[d + 1]>>
    [] v = 2 -> <<"urn:u", Names[d + 1]>>
    [] v = 3 -> IF d = 0 THEN <<"urn:u", Names[1]>> ELSE <<"urn:w", Names[d + 1]>>

AttribAt(v, d) ==
  CASE v = 1 -> IF d = 0 THEN <<>> ELSE << <<<<XML_NS, "id">>, <<"v">>>> >>
    [] v = 2 -> IF d = 0 THEN << <<<<"", "k">>, <<">">>>> >> ELSE <<>>
    [] v = 3 -> IF d = 0 THEN << <<<<"", "k">>, <<"&">>>> >> ELSE <<>>

TextsOf(v) == IF v = 2 THEN {<<>>, <<"<">>} ELSE {<<>>, <<"x">>}

RECURSIVE Trees(_, _, _)
RECURSIVE Forests(_, _, _)
\* the elements at depth d whose subtree has exactly n elements
Trees(v, n, d) ==
  IF n = 0 THEN {}
  ELSE {[tag |-> TagAt(v, d), attrib |-> AttribAt(v, d), text |-> x,
         tail |-> y, children |-> f] :
           x \in TextsOf(v), y \in TextsOf(v), f \in Forests(v, n - 1, d + 1)}

\* the sibling lists at depth d with k elements in all
Forests(v, k, d) ==
  IF k = 0 THEN {<<>>}
  ELSE UNION {{<<t>> \o f : t \in Trees(v, j, d), f \in Forests(v, k - j, d)} :
                j \in 1..k}

\* a parsed document's root has no tail
Documents(v, max) ==
  UNION {{t \in Trees(v, n, 0) : t.tail = <<>>} : n \in 1..max}

(***************************************************************************)
(* to_xml.  A list of standoffs (references to the dicts of                *)
(* self.standoffs) is a sequence of indices into standoffs.                *)
(***************************************************************************)
\* lst[i] for a Python list of n slots: a negative i counts from the end
py_index(i, n) == IF i < 0 THEN i + n ELSE i
index_ok(i, n) == py_index(i, n) \in 0..(n - 1)

\* the three loops "lookup[...] += [standoff]" raise IndexError when FALSE
lookups_ok(sts, n) ==
  \A i \in 1..Len(sts) :
     /\ index_ok(sts[i].begin, n)
     /\ sts[i].begin # sts[i].end => index_ok(sts[i].end, n)

AllIndices(sts) == [i \in 1..Len(sts) |-> i]

\* standoff_begin_lookup[slot], standoff_end_lookup[slot] and
\* standoff_empty_lookup[slot] of a text of n - 1 characters
standoff_begin_lookup(sts, n, slot) ==
  SelectSeq(AllIndices(sts),
            LAMBDA i : sts[i].begin # sts[i].end /\ py_index(sts[i].begin, n) = slot)

standoff_end_lookup(sts, n, slot) ==
  SelectSeq(AllIndices(sts),
            LAMBDA i : sts[i].begin # sts[i].end /\ py_index(sts[i].end, n) = slot)

standoff_empty_lookup(sts, n, slot) ==
  SelectSeq(AllIndices(sts),
            LAMBDA i : sts[i].begin = sts[i].end /\ py_index(sts[i].begin, n) = slot)

\* sorted(items, key=...): a stable sort; key is a function on the items
sorted(items, key) ==
  LET n == Len(items)
      pos(p) == 1 + Cardinality({q \in 1..n :
                      \/ key[items[q]] < key[items[p]]
                      \/ key[items[q]] = key[items[p]] /\ q < p})
  IN  [r \in 1..n |-> items[CHOOSE p \in 1..n : pos(p) = r]]

\* a faulty variant of sorted_reverse: reverse=True forgotten
sorted_reverse_ascending(items, key) == sorted(items, key)

\* sorted(items, key=..., reverse=True): descending, equal keys keep their order
sorted_reverse(items, key) ==
  sorted(items, [i \in DOMAIN key |-> 0 - key[i]])

\* key=itemgetter('depth')
depth_key(sts) == [i \in 1..Len(sts) |-> sts[i].depth]

\* standoff.get(field, 0)
get_sort(standoff, field) ==
  IF field \in DOMAIN standoff THEN standoff[field] ELSE 0

\* a faulty variant of tag_sort_key: the ordinals are ignored, so that the
\* depth order alone decides
tag_sort_key_constant(sts, idx) == [i \in 1..Len(sts) |-> 0]

\* the key of all_standoffs.sort in render_tags
tag_sort_key(sts, idx) ==
  [i \in 1..Len(sts) |->
     IF sts[i].begin = idx THEN get_sort(sts[i], "begin_sort")
     ELSE get_sort(sts[i], "end_sort")]

\* all_standoffs of render_tags(idx), after its sort
all_standoffs(sts, n, idx) ==
  sorted(sorted_reverse(standoff_end_lookup(sts, n, idx), depth_key(sts))
           \o sorted(standoff_empty_lookup(sts, n, idx)
                       \o standoff_begin_lookup(sts, n, idx), depth_key(sts)),
         tag_sort_key(sts, idx))

\* render_attribs: the attributes as written into the tag, name="value"
render_attribs(rmap, attribs) ==
  [j \in 1..Len(attribs) |-> <<proc_ns(rmap, attribs[j][1]), attribs[j][2]>>]

render_attribs_ok(rmap, attribs) ==
  \A j \in 1..Len(attribs) : proc_ns_ok(rmap, attribs[j][1])

\* the tag render_tags appends for one standoff, or none
tag_token(rmap, sts, i, idx) ==
  IF sts[i].begin = idx /\ sts[i].end = idx
  THEN <<[kind |-> "selfclosing", sid |-> i, tag |-> sts[i].tag,
          attribs |-> render_attribs(rmap, sts[i].attrib)]>>
  ELSE IF sts[i].begin = idx
  THEN <<[kind |-> "opening", sid |-> i, tag |-> sts[i].tag,
          attribs |-> render_attribs(rmap, sts[i].attrib)]>>
  ELSE IF sts[i].end = idx
  THEN <<[kind |-> "closing", sid |-> i, tag |-> sts[i].tag, attribs |-> <<>>]>>
  ELSE <<>>

render_tags(rmap, sts, n, idx) ==
  LET all == all_standoffs(sts, n, idx)
  IN  Concat([k \in 1..Len(all) |-> tag_token(rmap, sts, all[k], idx)])

\* render_tags raises KeyError (from render_attribs) when FALSE
render_tags_ok(rmap, sts, n, idx) ==
  LET all == all_standoffs(sts, n, idx)
  IN  \A k \in 1..Len(all) :
         sts[all[k]].begin = idx => render_attribs_ok(rmap, sts[all[k]].attrib)

\* render_closing_tags(idx), idx as Python resolves it
render_closing_tags(sts, n, idx) ==
  LET sorted_closing_tags ==
        sorted_reverse(standoff_end_lookup(sts, n, py_index(idx, n)), depth_key(sts))
  IN  [k \in 1..Len(sorted_closing_tags) |->
         [kind |-> "closing", sid |-> sorted_closing_tags[k],
          tag |-> sts[sorted_closing_tags[k]].tag, attribs |-> <<>>]]

\* the tag string written before offset idx; the last one follows the text
tag_string(rmap, sts, text, idx) ==
  IF idx < Len(text) THEN render_tags(rmap, sts, Len(text) + 1, idx)
  ELSE render_closing_tags(sts, Len(text) + 1, 0 - 1)

char_token(c) == [kind |-> "char", c |-> c]

\* out_xml, as it stands before etree.fromstring
out_xml(rmap, sts, text) ==
  Concat([k \in 1..Len(text) |->
            tag_string(rmap, sts, text, k - 1) \o <<char_token(text[k])>>])
    \o tag_string(rmap, sts, text, Len(text))


(***************************************************************************)
(* etree.fromstring(out_xml) and etree.tostring: the markup library, as    *)
(* far as to_xml depends on it.  The parse succeeds when the tokens are a  *)
(* single well-formed element: tags balanced and matching, no character    *)
(* data outside the root, every "&" starting one of the five predefined    *)
(* entities, no raw "<" in text or attribute values, no raw quote in an    *)
(* attribute value, no attribute twice, every prefix bound.  The document  *)
(* parsed is kept as its sequence of events (start, char, end), names      *)
(* expanded and entities resolved.                                         *)
(***************************************************************************)
entities ==
  << << <<"a", "m", "p">>, "&" >>,
     << <<"q", "u", "o", "t">>, "\"" >>,
     << <<"a", "p", "o", "s">>, "'" >>,
     << <<"l", "t">>, "<" >>,
     << <<"g", "t">>, ">" >> >>

start_event(name, attrib) == [e |-> "start", name |-> name, attrib |-> attrib]
end_event == [e |-> "end"]
char_event(c) == [e |-> "char", c |-> c]

\* character data with entity references resolved: [ok, chars]; st.ent is
\* <<>> outside a reference and <<"&", ...>> inside one
RECURSIVE unescape_from(_, _, _, _)
unescape_from(text, i, ent, acc) ==
  IF i > Len(text) THEN [ok |-> ent = <<>>, chars |-> acc]
  ELSE LET c == text[i] IN
    IF ent # <<>> THEN
      IF c = ";" THEN
        IF HasKey(entities, Tail(ent))
        THEN unescape_from(text, i + 1, <<>>, Append(acc, Lookup(entities, Tail(ent))))
        ELSE [ok |-> FALSE, chars |-> acc]
      ELSE IF c \in {"&", "<"} THEN [ok |-> FALSE, chars |-> acc]
      ELSE unescape_from(text, i + 1, Append(ent, c), acc)
    ELSE IF c = "&" THEN unescape_from(text, i + 1, <<"&">>, acc)
    ELSE IF c = "<" THEN [ok |-> FALSE, chars |-> acc]
    ELSE unescape_from(text, i + 1, <<>>, Append(acc, c))

unescape(text) == unescape_from(text, 1, <<>>, <<>>)

\* a prefix with no declaration in scope: out_xml declares none, so only
\* the empty prefix and the reserved prefix xml resolve
prefix_bound(qname) == qname[1] \in {"", "xml"}
expand_name(qname) == IF qname[1] = "xml" THEN <<XML_NS, qname[2]>> ELSE <<"", qname[2]>>

attribs_parse(attribs) ==
  /\ \A j \in 1..Len(attribs) :
        /\ prefix_bound(attribs[j][1])
        /\ "\"" \notin Range(attribs[j][2])
        /\ unescape(attribs[j][2]).ok
  /\ \A j, k \in 1..Len(attribs) : attribs[j][1] = attribs[k][1] => j = k

parsed_attribs(attribs) ==
  {<<expand_name(attribs[j][1]), unescape(attribs[j][2]).chars>> : j \in 1..Len(attribs)}

\* the character tokens from position i on, up to the next tag
RECURSIVE text_run(_, _)
text_run(tokens, i) ==
  IF i > Len(tokens) \/ tokens[i].kind # "char" THEN <<>>
  ELSE <<tokens[i].c>> \o text_run(tokens, i + 1)

\* st is [stack, roots, events, ok]
RECURSIVE parse_from(_, _, _)
parse_from(tokens, i, st) ==
  IF ~st.ok THEN st
  ELSE IF i > Len(tokens)
  THEN [st EXCEPT !.ok = st.stack = <<>> /\ st.roots = 1]
  ELSE LET t == tokens[i] IN
    IF t.kind = "char" THEN
      LET run == text_run(tokens, i)
          un  == unescape(run)
      IN  IF st.stack = <<>> \/ ~un.ok THEN [st EXCEPT !.ok = FALSE]
          ELSE parse_from(tokens, i + Len(run),
                 [st EXCEPT !.events = @ \o [k \in 1..Len(un.chars) |-> char_event(un.chars[k])]])
    ELSE IF t.kind = "closing" THEN
      IF st.stack = <<>> \/ st.stack[Len(st.stack)] # t.tag
      THEN [st EXCEPT !.ok = FALSE]
      ELSE parse_from(tokens, i + 1,
             [st EXCEPT !.stack = SubSeq(@, 1, Len(@) - 1),
                        !.roots = IF Len(st.stack) = 1 THEN @ + 1 ELSE @,
                        !.events = Append(@, end_event)])
    ELSE \* opening or selfclosing
      IF \/ st.stack = <<>> /\ st.roots > 0
         \/ ~prefix_bound(t.tag)
         \/ ~attribs_parse(t.attribs)
      THEN [st EXCEPT !.ok = FALSE]
      ELSE LET ev == start_event(expand_name(t.tag), parsed_attribs(t.attribs)) IN
        IF t.kind = "opening"
        THEN parse_from(tokens, i + 1,
               [st EXCEPT !.stack = Append(@, t.tag), !.events = Append(@, ev)])
        ELSE parse_from(tokens, i + 1,
               [st EXCEPT !.roots = IF st.stack = <<>> THEN @ + 1 ELSE @,
                          !.events = @ \o <<ev, end_event>>])

fromstring(tokens) ==
  parse_from(tokens, 1, [stack |-> <<>>, roots |-> 0, events |-> <<>>, ok |-> TRUE])

\* the events of an element tree, the form in which two documents are compared
RECURSIVE element_events(_)
element_events(element) ==
  <<start_event(element.tag,
                {<<element.attrib[j][1], element.attrib[j][2]>> :
                   j \in 1..Len(element.attrib)})>>
    \o [k \in 1..Len(element.text) |-> char_event(element.text[k])]
    \o Concat([i \in 1..Len(element.children) |->
                 element_events(element.children[i])
                   \o [k \in 1..Len(element.children[i].tail) |->
                         char_event(element.children[i].tail[k])]])
    \o <<end_event>>

\* the outcome of to_xml: the exception it raises or the document it returns;
\* tags and out_xml are its locals when it ends (tags[idx] is the tag string
\* written for offset idx)
to_xml_outcome(rmap, sts, text) ==
  IF ~lookups_ok(sts, Len(text) + 1) THEN [status |-> "IndexError"]
  ELSE IF \E idx \in 0..(Len(text) - 1) : ~render_tags_ok(rmap, sts, Len(text) + 1, idx)
  THEN [status |-> "KeyError"]
  ELSE LET tags   == [idx \in 0..Len(text) |-> tag_string(rmap, sts, text, idx)]
           out    == out_xml(rmap, sts, text)
           parsed == fromstring(out)
       IN  IF parsed.ok
           THEN [status |-> "ok", tags |-> tags, out_xml |-> out, xml |-> parsed.events]
           ELSE [status |-> "XMLSyntaxError", tags |-> tags, out_xml |-> out]


(***************************************************************************)
(* The annotation store: is_duplicate_annotation and add_annotation        *)
(***************************************************************************)
dict_keys(d) == {d[i][1] : i \in 1..Len(d)}

\* a faulty variant of attrs_equal: a subset check
attrs_subset(attr_a, attr_b) ==
  LET shared_items == {k \in dict_keys(attr_a) :
                         HasKey(attr_b, k) /\ Lookup(attr_a, k) = Lookup(attr_b, k)}
  IN  Cardinality(dict_keys(attr_a)) = Cardinality(shared_items)

attrs_equal(attr_a, attr_b) ==
  LET shared_items == {k \in dict_keys(attr_a) :
                         HasKey(attr_b, k) /\ Lookup(attr_a, k) = Lookup(attr_b, k)}
  IN  /\ Cardinality(dict_keys(attr_a)) = Cardinality(dict_keys(attr_b))
      /\ Cardinality(dict_keys(attr_b)) = Cardinality(shared_items)

is_duplicate_annotation(sts, begin, end, tag, attribute) ==
  \E i \in 1..Len(sts) :
     /\ sts[i].begin = begin
     /\ sts[i].end = end
     /\ sts[i].tag = tag
     /\ attrs_equal(attribute, sts[i].attrib)

\* a faulty variant of new_annotation: begin and end exchanged
new_annotation_swapped(begin, end, tag, depth, attribute) ==
  [begin |-> end, end |-> begin, tag |-> tag, attrib |-> attribute,
   depth |-> IF depth # <<>> THEN depth[1] ELSE 0]

\* a depth argument of None is <<>>, a depth d is <<d>>
new_annotation(begin, end, tag, depth, attribute) ==
  [begin |-> begin, end |-> end, tag |-> tag, attrib |-> attribute,
   depth |-> IF depth # <<>> THEN depth[1] ELSE 0]

\* a faulty variant of add_annotation: the new record is put first
add_annotation_prepend(sts, begin, end, tag, depth, attribute, unique) ==
  IF ~unique \/ ~is_duplicate_annotation(sts, begin, end, tag, attribute)
  THEN <<new_annotation(begin, end, tag, depth, attribute)>> \o sts
  ELSE sts

\* self.standoffs after add_annotation
add_annotation(sts, begin, end, tag, depth, attribute, unique) ==
  IF ~unique \/ ~is_duplicate_annotation(sts, begin, end, tag, attribute)
  THEN Append(sts, new_annotation(begin, end, tag, depth, attribute))
  ELSE sts

\* the annotations stored by add_annotation (they carry no sort ordinals)
Added(sts) == CountIf(sts, LAMBDA s : "begin_sort" \notin DOMAIN s)

(***************************************************************************)
(* The state machine.  call is the last call made on the object and ret    *)
(* what it returned or raised.                                             *)
(***************************************************************************)
Construct(v, doc) ==
  /\ tags_resolve(make_reverse_nsmap(VariantNsmap(v)), doc)
  /\ root_element = doc
  /\ nsmap = VariantNsmap(v)
  /\ reverse_nsmap = make_reverse_nsmap(VariantNsmap(v))
  /\ standoffs = xml_to_standoff(make_reverse_nsmap(VariantNsmap(v)), doc).standoffs
  /\ plain_text = xml_to_standoff(make_reverse_nsmap(VariantNsmap(v)), doc).plain_text
  /\ call = [op |-> "__init__"]
  /\ ret = [status |-> "ok"]

Init == \E v \in Variants : \E doc \in Documents(v, MaxElems) : Construct(v, doc)

AddAnnotation(begin, end, tag, depth, attribute, unique) ==
  /\ standoffs' = add_annotation(standoffs, begin, end, tag, depth, attribute, unique)
  /\ call' = [op |-> "add_annotation", begin |-> begin, end |-> end, tag |-> tag,
              depth |-> depth, attribute |-> attribute, unique |-> unique]
  /\ ret' = [status |-> "ok"]
  /\ UNCHANGED <<root_element, nsmap, reverse_nsmap, plain_text>>

ToXml ==
  /\ call' = [op |-> "to_xml"]
  /\ ret' = to_xml_outcome(reverse_nsmap, standoffs, plain_text)
  /\ UNCHANGED <<root_element, nsmap, reverse_nsmap, standoffs, plain_text>>

IsDuplicateAnnotation(begin, end, tag, attribute) ==
  /\ call' = [op |-> "is_duplicate_annotation"]
  /\ ret' = [status |-> "ok",
             value |-> is_duplicate_annotation(standoffs, begin, end, tag, attribute)]
  /\ UNCHANGED <<root_element, nsmap, reverse_nsmap, standoffs, plain_text>>

\* the arguments the calls are made with
Offsets == 0..MaxOffset
DepthArgs == {<<>>} \cup {<<d>> : d \in 1..MaxDepthArg}
ArgTags == {<<"", "b">>}
ArgAttribs == {<<>>}

\* the call stores nothing beyond the bounds on the annotation list
AddWithin(max, begin, end, tag, depth, attribute, unique) ==
  /\ IF unique /\ is_duplicate_annotation(standoffs, begin, end, tag, attribute)
     THEN TRUE
     ELSE Added(standoffs) < max /\ Len(standoffs) < MaxAnnotations
  /\ AddAnnotation(begin, end, tag, depth, attribute, unique)

Next ==
  \/ \E begin \in Offsets, end \in Offsets, tag \in ArgTags, depth \in DepthArgs,
        attribute \in ArgAttribs, unique \in BOOLEAN :
        AddWithin(MaxAdded, begin, end, tag, depth, attribute, unique)
  \/ ToXml
  \/ \E begin \in Offsets, end \in Offsets, tag \in ArgTags, attribute \in ArgAttribs :
        IsDuplicateAnnotation(begin, end, tag, attribute)

Spec == Init /\ [][Next]_vars


(***************************************************************************)
(* The annotation store on its own: small documents, more calls, and       *)
(* attribute dicts that differ in key order, in size and in one value.     *)
(***************************************************************************)
StoreOffsets == 0..MaxStoreOffset
StoreDepthArgs == {<<>>} \cup {<<d>> : d \in 1..MaxStoreDepthArg}
K1 == <<XML_NS, "id">>
K2 == <<"", "j">>
StoreAttribs ==
  {<< <<K1, <<"v">>>> >>,
   << <<K1, <<"v">>>>, <<K2, <<"v">>>> >>,
   << <<K2, <<"v">>>>, <<K1, <<"v">>>> >>,
   << <<K1, <<"v">>>>, <<K2, <<"u">>>> >>}

InitStore == \E doc \in Documents(1, MaxStoreElems) : Construct(1, doc)

NextStore ==
  \/ \E begin \in StoreOffsets, end \in StoreOffsets, tag \in ArgTags,
        depth \in StoreDepthArgs, attribute \in StoreAttribs, unique \in BOOLEAN :
        AddWithin(MaxStoreAdded, begin, end, tag, depth, attribute, unique)
  \/ ToXml
  \/ \E begin \in StoreOffsets, end \in StoreOffsets, tag \in ArgTags,
        attribute \in StoreAttribs :
        IsDuplicateAnnotation(begin, end, tag, attribute)

SpecStore == InitStore /\ [][NextStore]_vars


(***************************************************************************)
(* Vocabulary of the properties.                                           *)
(***************************************************************************)
\* to_xml was the last call and got as far as writing the tag strings
Rendered == call.op = "to_xml" /\ ret.status \in {"ok", "XMLSyntaxError"}
\* to_xml was the last call and returned a document
Returned == call.op = "to_xml" /\ ret.status = "ok"
\* no add_annotation has stored anything: the list is the decomposition's
Decomposed == Added(standoffs) = 0

IsClosing(t) == t.kind = "closing"
IsOpening(t) == t.kind \in {"opening", "selfclosing"}
DepthOf(t) == standoffs[t.sid].depth
\* the tie-break ordinal of a tag: end_sort of a closing tag, begin_sort of an
\* opening or self-closing one, 0 when the annotation has none
OrdinalOf(t) ==
  get_sort(standoffs[t.sid], IF IsClosing(t) THEN "end_sort" ELSE "begin_sort")

\* the pairs of positions p < q of the tag string of offset idx
TagPairs(idx) ==
  {pq \in (1..Len(ret.tags[idx])) \X (1..Len(ret.tags[idx])) : pq[1] < pq[2]}

\* positions in out_xml of the tag that opens annotation i and of the one
\* that closes it (a self-closing tag does both); 0 when there is none
PosWhere(P(_)) ==
  IF \E k \in 1..Len(ret.out_xml) : P(ret.out_xml[k])
  THEN CHOOSE k \in 1..Len(ret.out_xml) : P(ret.out_xml[k])
  ELSE 0
OpenPos(i) == PosWhere(LAMBDA t : t.kind \in {"opening", "selfclosing"} /\ t.sid = i)
ClosePos(i) == PosWhere(LAMBDA t : t.kind \in {"closing", "selfclosing"} /\ t.sid = i)
\* annotation i is rendered as an element that contains annotation j's
RendersAround(i, j) ==
  /\ OpenPos(i) > 0 /\ OpenPos(j) > 0 /\ ClosePos(i) > 0 /\ ClosePos(j) > 0
  /\ OpenPos(i) < OpenPos(j)
  /\ ClosePos(j) < ClosePos(i)

(***************************************************************************)
(* Properties of the reconstruction (specification Spec).                  *)
(***************************************************************************)
\* C1 (round-trip identity): a to_xml call on the annotation list of the
\* decomposition alone returns, and the document it returns has the tag tree,
\* the attributes and the text of the input document.
RoundTripIdentity ==
  (call.op = "to_xml" /\ Decomposed) =>
     /\ ret.status = "ok"
     /\ ret.xml = element_events(root_element)

DepthOrdering ==
  Returned =>
    \A i, j \in 1..Len(standoffs) :
       ( /\ standoffs[i].begin = standoffs[j].begin
         /\ standoffs[i].end = standoffs[j].end
         /\ standoffs[i].begin < Len(plain_text)
         /\ standoffs[i].depth < standoffs[j].depth ) => RendersAround(i, j)

\* the elements of a tree in the order xml_to_standoff appends their
\* annotations (an element after its descendants): post_order(root)[i] is the
\* element of standoffs[i]
RECURSIVE post_order(_)
post_order(element) ==
  Concat([i \in 1..Len(element.children) |-> post_order(element.children[i])])
    \o <<element>>

\* the annotation of the parent of annotation i's element: the next one in
\* the list that is one level up (0 for the root)
ParentOf(i) ==
  IF \E j \in (i + 1)..Len(standoffs) : standoffs[j].depth = standoffs[i].depth - 1
  THEN CHOOSE j \in (i + 1)..Len(standoffs) :
         /\ standoffs[j].depth = standoffs[i].depth - 1
         /\ \A k \in (i + 1)..(j - 1) : standoffs[k].depth # standoffs[i].depth - 1
  ELSE 0

\* C5 (empty-element round trip): every element with no text and no children
\* has an annotation with begin = end, and a to_xml call on the decomposition
\* returns a document in which that annotation is written as exactly one
\* self-closing tag, in the tag string of its offset, inside its parent.
EmptyElementRoundTrip ==
  (call.op = "to_xml" /\ Decomposed) =>
    \A i \in 1..Len(standoffs) :
       (post_order(root_element)[i].text = <<>>
          /\ post_order(root_element)[i].children = <<>>) =>
         /\ standoffs[i].begin = standoffs[i].end
         /\ ret.status = "ok"
         /\ Cardinality({k \in 1..Len(ret.out_xml) :
                           ret.out_xml[k].kind # "char" /\ ret.out_xml[k].sid = i}) = 1
         /\ \E k \in 1..Len(ret.tags[standoffs[i].begin]) :
               /\ ret.tags[standoffs[i].begin][k].kind = "selfclosing"
               /\ ret.tags[standoffs[i].begin][k].sid = i
         /\ ParentOf(i) # 0 => RendersAround(ParentOf(i), i)

\* the name of the pseudo-attribute that declares the namespace of a prefix
xmlns_name(prefix) == IF prefix = None THEN <<"", "xmlns">> ELSE <<"xmlns", prefix>>

\* the tags of out_xml that carry a namespace declaration
DeclaringTags ==
  {k \in 1..Len(ret.out_xml) :
     /\ ret.out_xml[k].kind \in {"opening", "selfclosing"}
     /\ \E j \in 1..Len(ret.out_xml[k].attribs) :
           ret.out_xml[k].attribs[j][1][1] = "xmlns" \/ ret.out_xml[k].attribs[j][1] = <<"", "xmlns">>}

\* C9 (namespace reattachment): when the annotation of lowest depth opens at
\* offset 0, its opening tag carries one declaration per entry of nsmap, and
\* no other tag carries any.
NamespaceReattachment ==
  Rendered =>
    \A i \in 1..Len(standoffs) :
       ( /\ \A j \in 1..Len(standoffs) : standoffs[i].depth <= standoffs[j].depth
         /\ standoffs[i].begin = 0
         /\ OpenPos(i) > 0 ) =>
         /\ \A n \in 1..Len(nsmap) :
               \E j \in 1..Len(ret.out_xml[OpenPos(i)].attribs) :
                  ret.out_xml[OpenPos(i)].attribs[j][1] = xmlns_name(nsmap[n][1])
         /\ DeclaringTags \subseteq {OpenPos(i)}

\* C10 (escaping on output): every attribute value to_xml writes into a tag
\* is the annotation's value escaped as xml_safe escapes text.
AttributeValuesEscaped ==
  Rendered =>
    \A k \in 1..Len(ret.out_xml) :
       ret.out_xml[k].kind \in {"opening", "selfclosing"} =>
         \A j \in 1..Len(ret.out_xml[k].attribs) :
            ret.out_xml[k].attribs[j][2]
              = xml_safe(standoffs[ret.out_xml[k].sid].attrib[j][2])

(***************************************************************************)
(* Properties of the annotation store (specification SpecStore).           *)
(***************************************************************************)
InBounds(standoff) ==
  /\ 0 <= standoff.begin
  /\ standoff.begin <= standoff.end
  /\ standoff.end <= Len(plain_text)
AllInBounds == \A i \in 1..Len(standoffs) : InBounds(standoffs[i])

\* C6 as the specification states it: every annotation of every reachable
\* state satisfies 0 <= begin <= end <= len(plain_text).
FlatTextLengthInvariant == AllInBounds

\* C6 amended: the annotations of the decomposition satisfy the bound in
\* every reachable state, and a call leaves the bound true of the whole list
\* unless it is an add_annotation whose own begin and end break it
\* (add_annotation stores its arguments unchecked).
LengthInvariantOfValidCalls ==
  /\ [](\A i \in 1..Len(standoffs) :
          "begin_sort" \in DOMAIN standoffs[i] => InBounds(standoffs[i]))
  /\ [][(/\ AllInBounds
         /\ call'.op = "add_annotation" =>
              InBounds([begin |-> call'.begin, end |-> call'.end]))
        => AllInBounds']_vars

\* C6 witness: add_annotation has stored an annotation and the bound holds of
\* the whole list.
ValidAnnotationAdded ==
  /\ call.op = "add_annotation"
  /\ Added(standoffs) > 0
  /\ standoffs[Len(standoffs)].begin < standoffs[Len(standoffs)].end
  /\ AllInBounds

\* two attribute dicts with the same key/value pairs, in whatever order
SameDict(a, b) == Range(a) = Range(b)
\* the stored annotations with the values (begin, end, tag, attrib) of call c
Matching(sts, c) ==
  {i \in 1..Len(sts) :
     /\ sts[i].begin = c.begin /\ sts[i].end = c.end /\ sts[i].tag = c.tag
     /\ SameDict(sts[i].attrib, c.attribute)}
SameValues(c, d) ==
  /\ c.begin = d.begin /\ c.end = d.end /\ c.tag = d.tag
  /\ SameDict(c.attribute, d.attribute)

\* C7 as the specification states it: after two successive calls with the
\* same values and unique=True exactly one stored annotation has those
\* values; each call with unique=False appends exactly one.
DedupExactlyOne ==
  [][/\ ( /\ call.op = "add_annotation" /\ call.unique
          /\ call'.op = "add_annotation" /\ call'.unique
          /\ SameValues(call, call') ) =>
            Cardinality(Matching(standoffs', call')) = 1
     /\ (call'.op = "add_annotation" /\ ~call'.unique) =>
            Len(standoffs') = Len(standoffs) + 1]_vars

\* C7 amended: a call with unique=True stores one annotation when none with
\* its values is stored and changes nothing otherwise (whatever its depth and
\* the key order of its attrib), so two such calls leave exactly one only
\* when none was stored before them; each call with unique=False appends
\* exactly one annotation with its values.
DedupIdempotence ==
  [][call'.op = "add_annotation" =>
       IF call'.unique
       THEN IF Matching(standoffs, call') = {}
            THEN /\ Len(standoffs') = Len(standoffs) + 1
                 /\ Cardinality(Matching(standoffs', call')) = 1
            ELSE standoffs' = standoffs
       ELSE /\ Len(standoffs') = Len(standoffs) + 1
            /\ Cardinality(Matching(standoffs', call'))
                 = Cardinality(Matching(standoffs, call')) + 1]_vars

\* C7 witness: a call with unique=True has been made for values that two
\* stored annotations have, the second of them with the keys of attrib in
\* another order.
UniqueCallOnStoredTwice ==
  /\ call.op = "add_annotation" /\ call.unique
  /\ Cardinality(Matching(standoffs, call)) = 2
  /\ \E i, j \in Matching(standoffs, call) : standoffs[i].attrib # standoffs[j].attrib

\* C8 (append-only state): no call changes plain_text, the list before a call
\* is a prefix of the list after it, add_annotation appends at most one
\* record, and to_xml and is_duplicate_annotation append none.
AppendOnly ==
  [][/\ plain_text' = plain_text
     /\ Len(standoffs') \in {Len(standoffs), Len(standoffs) + 1}
     /\ SubSeq(standoffs', 1, Len(standoffs)) = standoffs
     /\ call'.op \in {"to_xml", "is_duplicate_annotation"} => standoffs' = standoffs]_vars

\* C8 witness: to_xml has failed with a parse error on a list that
\* add_annotation extended.
ToXmlFailedAfterAdd ==
  /\ call.op = "to_xml"
  /\ ret.status = "XMLSyntaxError"
  /\ Added(standoffs) > 0

=============================================================================
